---- MODULE Spec2Model ----
(***************************************************************************)
(* Model of ml-spectra-fitting's optimize (src/src/index.js).              *)
(*                                                                         *)
(* index.js holds two encodings of optimize:                               *)
(*   - the first (lines 1-168) obtains its configuration from checkInput   *)
(*     and resolves values with a getValue keyed by state constants;       *)
(*   - the second (lines 170-290) is self-contained and resolves values    *)
(*     with a getValue keyed by STATE_INIT/STATE_MIN/else.                 *)
(* Both are modelled; `version` says which one a behaviour runs.           *)
(*                                                                         *)
(* Numbers are exact rationals <<n, d>> (d > 0, lowest terms); <<0, 0>>    *)
(* stands for undefined / NaN.  Arrays are 0-based functions, as in the    *)
(* source, so that index arithmetic reads like the code's.                 *)
(***************************************************************************)
EXTENDS Integers, Sequences, FiniteSets, TLC

VARIABLES
  version,          \* 1: first encoding (lines 43-168), 2: second (195-290)
  data,             \* the caller's data object {x, y}
  options,          \* the caller's options
  input,            \* the caller's peak values as they were before the call
  inputData,        \* the caller's data as it was before the call
  callerPeaks,      \* the caller's peaks array: index -> object reference
  heap,             \* object reference -> peak object
  pc,               \* position inside optimize
  peaks,            \* optimize's local `peaks` (references)
  kind,             \* second encoding: getKind(shape.kind)
  x,                \* abscissas handed to the solver
  y,                \* normalized ordinates
  maxY,
  nbParams,
  paramsFunc,
  getValueOptions,  \* first encoding: checkInput's resolver options
  deltaX,           \* second encoding: |data.x[0] - data.x[1]|
  pInit, pMin, pMax, gradientDifference,
  allocated,        \* names of the buffers allocated so far
  nbWrites,         \* how often the fill loop stored at each flat index
  handed,           \* names of the vectors attached to optimizationOptions
  solverCalls,
  solverMode,       \* which result the external solver produced
  returned,         \* parameterValues as the solver returned them
  parameterValues,  \* pFit.parameterValues (rescaled in place by the decode)
  result,           \* result.peaks (references); empty until returned
  error,            \* message of the error thrown, "" if none
  probe,            \* the last direct call of a value resolver, if any
  shapeModel        \* the function a shape-model constructor returned,
                    \* and its calls

vars == << version, data, options, input, inputData, callerPeaks, heap, pc, peaks, kind,
           x, y, maxY, nbParams, paramsFunc, getValueOptions, deltaX,
           pInit, pMin, pMax, gradientDifference, allocated, nbWrites,
           handed, solverCalls, solverMode, returned, parameterValues,
           result, error, probe, shapeModel >>

----------------------------------------------------------------------------
(* Bounds of the model *)

MaxPeaks == 2

\* direct calls of the value resolvers ask for indexes 0..MaxIndex and
\* states 0..MaxState
MaxIndex == 5
MaxState == 4

\* the longest flat parameter vector handed to a shape-model constructor,
\* and the most calls made of the function it returns
MaxLength == 8
MaxCalls == 3

----------------------------------------------------------------------------
(* Numbers *)

Abs(n) == IF n < 0 THEN -n ELSE n

RECURSIVE GCD(_, _)
GCD(a, b) == IF b = 0 THEN a ELSE GCD(b, a % b)

NaN == << 0, 0 >>
Undefined == NaN

IsNum(a) == a[2] # 0

Num(n, d) ==
  IF d = 0 THEN NaN
  ELSE LET g == GCD(Abs(n), Abs(d))
           sgn == IF d < 0 THEN -1 ELSE 1
       IN << (sgn * n) \div g, (sgn * d) \div g >>

Whole(n) == << n, 1 >>
Zero == Whole(0)

Add(a, b) == IF IsNum(a) /\ IsNum(b)
             THEN Num(a[1] * b[2] + b[1] * a[2], a[2] * b[2]) ELSE NaN
Sub(a, b) == IF IsNum(a) /\ IsNum(b)
             THEN Num(a[1] * b[2] - b[1] * a[2], a[2] * b[2]) ELSE NaN
Mul(a, b) == IF IsNum(a) /\ IsNum(b)
             THEN Num(a[1] * b[1], a[2] * b[2]) ELSE NaN
Div(a, b) == IF IsNum(a) /\ IsNum(b) /\ b[1] # 0
             THEN Num(a[1] * b[2], a[2] * b[1]) ELSE NaN
Leq(a, b) == IsNum(a) /\ IsNum(b) /\ a[1] * b[2] <= b[1] * a[2]
AbsNum(a) == IF IsNum(a) THEN << Abs(a[1]), a[2] >> ELSE NaN

\* JavaScript's `a || b` on numbers: undefined, NaN and 0 are falsy
OrElse(a, b) == IF ~IsNum(a) \/ a = Zero THEN b ELSE a

----------------------------------------------------------------------------
(* Constants of index.js *)

STATE_INIT == 0
STATE_MIN == 1
STATE_MAX == 2
STATE_GRADIENT_DIFFERENCE == 3

X == 0
Y == 1
WIDTH == 2
MU == 3

keys == [k \in 0..3 |-> CASE k = 0 -> "x" [] k = 1 -> "y"
                          [] k = 2 -> "width" [] OTHER -> "mu"]

----------------------------------------------------------------------------
(* getValue of the first encoding: a value, or an error thrown *)

Return(v) == [threw |-> FALSE, value |-> v, message |-> ""]
Throw(m) == [threw |-> TRUE, value |-> Undefined, message |-> m]

\* `a !== undefined ? a : b`
IfDefined(a, b) == IF a # Undefined THEN a ELSE b

\* lines 101-113
getValueInit(parameterIndex, peak, opts) ==
  CASE parameterIndex = X -> Return(peak.x)
    [] parameterIndex = Y -> Return(Div(peak.y, opts.maxY))
    [] parameterIndex = WIDTH -> Return(peak.width)
    [] parameterIndex = MU -> Return(OrElse(peak.mu, Num(1, 2)))
    [] OTHER -> Throw("The parameter is not supported")

\* `peak.field || option` in place of `peak.field !== undefined ? ...`
getValueGradientDifferenceFalsy(parameterIndex, peak, opts) ==
  CASE parameterIndex = X ->
         Return(OrElse(peak.xGradientDifference,
                  OrElse(opts.xGradientDifference,
                         Div(peak.width, Whole(2000)))))
    [] parameterIndex = Y ->
         Return(OrElse(peak.yGradientDifference, opts.yGradientDifference))
    [] parameterIndex = WIDTH ->
         Return(OrElse(peak.widthGradientDifference,
                  OrElse(opts.widthGradientDifference,
                         Div(peak.width, Whole(2000)))))
    [] parameterIndex = MU ->
         Return(OrElse(peak.muGradientDifference, opts.muGradientDifference))
    [] OTHER -> Throw("The parameter is not supported")

\* lines 114-138
getValueGradientDifference(parameterIndex, peak, opts) ==
  CASE parameterIndex = X ->
         Return(IfDefined(peak.xGradientDifference,
                  IfDefined(opts.xGradientDifference,
                            Div(peak.width, Whole(2000)))))
    [] parameterIndex = Y ->
         Return(IfDefined(peak.yGradientDifference, opts.yGradientDifference))
    [] parameterIndex = WIDTH ->
         Return(IfDefined(peak.widthGradientDifference,
                  IfDefined(opts.widthGradientDifference,
                            Div(peak.width, Whole(2000)))))
    [] parameterIndex = MU ->
         Return(IfDefined(peak.muGradientDifference, opts.muGradientDifference))
    [] OTHER -> Throw("The parameter is not supported")

\* the lower position bound on the wrong side of the peak
getValueMinAbove(parameterIndex, peak, opts) ==
  CASE parameterIndex = X ->
         Return(Add(peak.x, Mul(peak.width, opts.minFactorX)))
    [] parameterIndex = Y ->
         Return(Mul(Div(peak.y, opts.maxY), opts.minFactorY))
    [] parameterIndex = WIDTH -> Return(Mul(peak.width, opts.minFactorWidth))
    [] parameterIndex = MU -> Return(opts.minMuValue)
    [] OTHER -> Throw("The parameter is not supported")

\* lines 139-151
getValueMin(parameterIndex, peak, opts) ==
  CASE parameterIndex = X ->
         Return(Sub(peak.x, Mul(peak.width, opts.minFactorX)))
    [] parameterIndex = Y ->
         Return(Mul(Div(peak.y, opts.maxY), opts.minFactorY))
    [] parameterIndex = WIDTH -> Return(Mul(peak.width, opts.minFactorWidth))
    [] parameterIndex = MU -> Return(opts.minMuValue)
    [] OTHER -> Throw("The parameter is not supported")

\* lines 152-164
getValueMax(parameterIndex, peak, opts) ==
  CASE parameterIndex = X ->
         Return(Add(peak.x, Mul(peak.width, opts.maxFactorX)))
    [] parameterIndex = Y ->
         Return(Mul(Div(peak.y, opts.maxY), opts.maxFactorY))
    [] parameterIndex = WIDTH -> Return(Mul(peak.width, opts.maxFactorWidth))
    [] parameterIndex = MU -> Return(opts.maxMuValue)
    [] OTHER -> Throw("The parameter is not supported")

\* lines 98-168: the switch on the state
getValue(parameterIndex, peak, state, opts) ==
  CASE state = STATE_INIT -> getValueInit(parameterIndex, peak, opts)
    [] state = STATE_GRADIENT_DIFFERENCE ->
         getValueGradientDifference(parameterIndex, peak, opts)
    [] state = STATE_MIN -> getValueMin(parameterIndex, peak, opts)
    [] state = STATE_MAX -> getValueMax(parameterIndex, peak, opts)
    [] OTHER -> Throw("the state is not supported")

(* getValue of the second encoding: always a value *)
getValue2(parameterIndex, peak, key, dt) ==
  CASE parameterIndex = 0 ->
         Return(IF key = STATE_INIT THEN peak.x
                ELSE IF key = STATE_MIN THEN Sub(peak.x, dt)
                ELSE Add(peak.x, dt))
    [] parameterIndex = 1 ->
         Return(IF key = STATE_INIT THEN peak.y
                ELSE IF key = STATE_MIN THEN Zero ELSE Num(3, 2))
    [] parameterIndex = 2 ->
         Return(IF key = STATE_INIT THEN peak.width
                ELSE IF key = STATE_MIN THEN Div(peak.width, Whole(4))
                ELSE Mul(peak.width, Whole(4)))
    [] OTHER ->
         Return(IF key = STATE_INIT THEN Num(1, 2)
                ELSE IF key = STATE_MIN THEN Zero ELSE Whole(1))

----------------------------------------------------------------------------
(* Inputs *)

Peak(px, py, pw, pmu, xg, yg, wg, mg) ==
  [x |-> px, y |-> py, width |-> pw, mu |-> pmu,
   xGradientDifference |-> xg, yGradientDifference |-> yg,
   widthGradientDifference |-> wg, muGradientDifference |-> mg]

\* absent fields are Undefined
PeakPool ==
  { Peak(Whole(0), Whole(1), Whole(2), Undefined,
         Undefined, Undefined, Undefined, Undefined),
    Peak(Whole(1), Whole(2), Whole(1), Zero,
         Zero, Undefined, Undefined, Undefined),
    Peak(Whole(-1), Whole(3), Whole(4), Whole(1),
         Undefined, Num(1, 100), Num(1, 10), Undefined),
    Peak(Whole(2), Whole(1), Num(1, 2), Num(1, 4),
         Undefined, Undefined, Undefined, Zero) }

PeakLists == UNION { [0..(n - 1) -> PeakPool] : n \in 1..MaxPeaks }

Array3(a, b, c) == [k \in 0..2 |-> CASE k = 0 -> a [] k = 1 -> b [] OTHER -> c]

DataPool ==
  { [x |-> Array3(Whole(-1), Whole(0), Whole(1)),
     y |-> Array3(Whole(1), Whole(2), Whole(1))],
    [x |-> Array3(Whole(0), Num(1, 2), Whole(1)),
     y |-> Array3(Whole(3), Whole(1), Whole(2))] }

ShapeKinds == {"gaussian", "lorentzian", "pseudovoigt", "triangular"}
MethodKinds == {"lm", "simplex"}

\* options.optimization: the fields a caller may set (Undefined / "none"
\* when left out); xMax is optimization.parameters.x.max, a function of
\* the peak named by a tag
OptimizationPool ==
  { [xMax |-> "none", xGradientDifference |-> Undefined,
     yGradientDifference |-> Undefined,
     widthGradientDifference |-> Undefined,
     muGradientDifference |-> Undefined],
    [xMax |-> "xPlusTenthOfWidth", xGradientDifference |-> Undefined,
     yGradientDifference |-> Undefined,
     widthGradientDifference |-> Undefined,
     muGradientDifference |-> Undefined],
    [xMax |-> "none", xGradientDifference |-> Num(1, 100),
     yGradientDifference |-> Num(1, 500),
     widthGradientDifference |-> Num(1, 50),
     muGradientDifference |-> Num(1, 20)] }

OptionsPool ==
  { [shape |-> [kind |-> sk],
     optimization |-> [kind |-> mk, parameters |-> [x |-> [max |-> o.xMax]],
                       xGradientDifference |-> o.xGradientDifference,
                       yGradientDifference |-> o.yGradientDifference,
                       widthGradientDifference |-> o.widthGradientDifference,
                       muGradientDifference |-> o.muGradientDifference]] :
      sk \in ShapeKinds, mk \in MethodKinds, o \in OptimizationPool }

\* a function-valued override applied to a peak (checkInput.test.js:11)
ApplyOverride(tag, peak) ==
  CASE tag = "xPlusTenthOfWidth" -> Add(peak.x, Mul(peak.width, Num(1, 10)))
    [] OTHER -> Undefined

----------------------------------------------------------------------------
(* External collaborators *)

\* ml-array-max
RECURSIVE MaxFrom(_, _, _)
MaxFrom(arr, k, best) ==
  IF k \notin DOMAIN arr THEN best
  ELSE MaxFrom(arr, k + 1, IF Leq(best, arr[k]) THEN arr[k] ELSE best)

getMaxValue(arr) == MaxFrom(arr, 1, arr[0])

\* data.y.map((e) => (e /= maxY)): a new array; the source array is left alone
mapDivide(arr, m) ==
  [source |-> arr, result |-> [k \in DOMAIN arr |-> Div(arr[k], m)]]

\* ml-peak-shape-generator's getKind: the identifiers the switch of
\* optimize tests; 0 stands for whatever an unknown name maps to
getKind(name) ==
  CASE name = "gaussian" -> 1
    [] name = "lorentzian" -> 2
    [] name = "pseudovoigt" -> 3
    [] OTHER -> 0

\* JSON.parse(JSON.stringify(peaks)): fresh objects at fresh references,
\* holding the fields that are defined (finite numbers survive unchanged)
\* no copy at all: the caller's own objects
aliasRefs(refs, h) == refs

jsonCopyRefs(refs, h) ==
  [i \in DOMAIN refs |-> Cardinality(DOMAIN h) + i]

jsonCopyHeap(refs, h) ==
  LET base == Cardinality(DOMAIN h)
      n == Cardinality(DOMAIN refs)
  IN [r \in 0..(base + n - 1) |->
        IF r < base THEN h[r] ELSE h[refs[r - base]]]

----------------------------------------------------------------------------
(* checkInput and selectMethod: imported by index.js, not part of src/ *)

DefaultGetValueOptions ==
  [minFactorWidth |-> Num(1, 4), maxFactorWidth |-> Whole(4),
   minFactorX |-> Whole(2), maxFactorX |-> Whole(2),
   minFactorY |-> Zero, maxFactorY |-> Num(3, 2),
   minMuValue |-> Zero, maxMuValue |-> Whole(1),
   xGradientDifference |-> Undefined, yGradientDifference |-> Num(1, 1000),
   widthGradientDifference |-> Undefined,
   muGradientDifference |-> Num(1, 100)]

checkInput(d, opts) ==
  LET k == opts.shape.kind
      m == getMaxValue(d.y)
      norm == mapDivide(d.y, m)
      o == opts.optimization
  IN IF k \notin {"gaussian", "lorentzian", "pseudovoigt"}
     THEN [threw |-> TRUE, message |-> "kind of shape is not supported"]
     ELSE [threw |-> FALSE, message |-> "",
           dataY |-> norm.source,
           x |-> d.x, y |-> norm.result, maxY |-> m,
           nbParams |-> IF k = "pseudovoigt" THEN 4 ELSE 3,
           paramsFunc |-> CASE k = "gaussian" -> "sumOfGaussians"
                            [] k = "lorentzian" -> "sumOfLorentzians"
                            [] OTHER -> "sumOfGaussianLorentzians",
           optimization |-> o,
           getValueOptions |->
             [f \in DOMAIN DefaultGetValueOptions \cup {"maxY"} |->
                IF f = "maxY" THEN m
                ELSE IF f \in DOMAIN o /\ o[f] # Undefined THEN o[f]
                ELSE DefaultGetValueOptions[f]]]

selectMethod(optimization) ==
  IF optimization.kind = "lm"
  THEN [threw |-> FALSE, message |-> "", algorithm |-> "LM"]
  ELSE [threw |-> TRUE, algorithm |-> "none",
        message |-> "The optimization algorithm is not supported"]

----------------------------------------------------------------------------
(* Buffers *)

\* new Float64Array(n): n zeros
Float64Array(n) == [k \in 0..(n - 1) |-> Zero]

\* arr[idx] = v; a store outside a typed array's range is dropped
Store(arr, idx, v) ==
  IF idx \in DOMAIN arr THEN [arr EXCEPT ![idx] = v] ELSE arr

\* arr[idx]; a read outside the range gives undefined
Read(arr, idx) == IF idx \in DOMAIN arr THEN arr[idx] ELSE Undefined

Count(cnt, idx) ==
  IF idx \in DOMAIN cnt THEN [cnt EXCEPT ![idx] = @ + 1] ELSE cnt

Length(arr) == Cardinality(DOMAIN arr)

\* the loop variables swapped: s + i * nbShapes
FlatIndexSwapped(i, s, nbShapes) == s + i * nbShapes

\* the flat index of the fill loops: i + s * nbShapes
FlatIndex(i, s, nbShapes) == i + s * nbShapes

\* the flat index of the decode loops: i + s * peaks.length
DecodeIndex(i, s, length) == i + s * length

\* right for a single peak only
HeightIndexOnePeak(i, length) == i + 1

\* the index rescaled by the decode loops: i + peaks.length
HeightIndex(i, length) == i + length

NoBuffer == << >>

NoProbe == [fn |-> "none", parameterIndex |-> 0, state |-> 0,
            result |-> Return(Undefined)]

\* no shape-model function constructed yet
NoShapeModel == [fn |-> "none", p |-> << >>, calls |-> 0, t |-> Undefined,
                 result |-> << >>, first |-> << >>]

----------------------------------------------------------------------------
(* The fill loops (first encoding lines 61-74, second 235-242) *)

RECURSIVE fillLoop(_, _, _, _, _, _, _)
fillLoop(acc, i, s, pk, nbShapes, nbPar, opts) ==
  IF acc.threw \/ i >= nbShapes THEN acc
  ELSE IF s >= nbPar THEN fillLoop(acc, i + 1, 0, pk, nbShapes, nbPar, opts)
  ELSE
    LET peak == pk[i]
        vInit == getValue(s, peak, STATE_INIT, opts)
        vMin == getValue(s, peak, STATE_MIN, opts)
        vMax == getValue(s, peak, STATE_MAX, opts)
        vGrad == getValue(s, peak, STATE_GRADIENT_DIFFERENCE, opts)
        k == FlatIndex(i, s, nbShapes)
    IN IF vInit.threw \/ vMin.threw \/ vMax.threw \/ vGrad.threw
       THEN [acc EXCEPT !.threw = TRUE,
                        !.message = "The parameter is not supported"]
       ELSE fillLoop([acc EXCEPT !.pInit = Store(@, k, vInit.value),
                                 !.pMin = Store(@, k, vMin.value),
                                 !.pMax = Store(@, k, vMax.value),
                                 !.gradientDifference = Store(@, k, vGrad.value),
                                 !.nbWrites = Count(@, k)],
                     i, s + 1, pk, nbShapes, nbPar, opts)

RECURSIVE fillLoop2(_, _, _, _, _, _, _)
fillLoop2(acc, i, s, pk, length, nbPar, dt) ==
  IF i >= length THEN acc
  ELSE IF s >= nbPar THEN fillLoop2(acc, i + 1, 0, pk, length, nbPar, dt)
  ELSE
    LET peak == pk[i]
        k == FlatIndex(i, s, length)
    IN fillLoop2([acc EXCEPT
                    !.pInit = Store(@, k, getValue2(s, peak, STATE_INIT, dt).value),
                    !.pMin = Store(@, k, getValue2(s, peak, STATE_MIN, dt).value),
                    !.pMax = Store(@, k, getValue2(s, peak, STATE_MAX, dt).value),
                    !.nbWrites = Count(@, k)],
                 i, s + 1, pk, length, nbPar, dt)

----------------------------------------------------------------------------
(* The decode loops (first encoding lines 87-93, second 254-260) *)

\* for (s...) peaks[i][keys[s]] = pFit.parameterValues[i + s * peaks.length]
RECURSIVE writeBack(_, _, _, _, _, _)
writeBack(peak, i, s, pv, length, nbPar) ==
  IF s >= nbPar THEN peak
  ELSE writeBack([peak EXCEPT ![keys[s]] = Read(pv, DecodeIndex(i, s, length))],
                 i, s + 1, pv, length, nbPar)

\* pFit.parameterValues[i + peaks.length] *= maxY
rescale(pv, i, length, m) ==
  Store(pv, HeightIndex(i, length), Mul(Read(pv, HeightIndex(i, length)), m))

RECURSIVE decodeLoop(_, _, _, _, _)
decodeLoop(st, i, refs, nbPar, m) ==
  IF i >= Length(refs) THEN st
  ELSE LET pv1 == rescale(st.pv, i, Length(refs), m)
           obj == writeBack(st.heap[refs[i]], i, 0, pv1, Length(refs), nbPar)
       IN decodeLoop([pv |-> pv1, heap |-> [st.heap EXCEPT ![refs[i]] = obj]],
                     i + 1, refs, nbPar, m)

----------------------------------------------------------------------------
(* The external solver: what it may return for the vectors it was handed *)

SolverModes == {"identity", "indexed", "throw"}

solverResult(mode, initialValues) ==
  CASE mode = "identity" -> initialValues
    [] OTHER -> [k \in DOMAIN initialValues |-> Num(2 * k + 3, 2)]

----------------------------------------------------------------------------
(* State after the caller has built its arguments, before optimize runs *)

Init ==
  /\ version \in {1, 2}
  /\ data \in DataPool
  /\ options \in OptionsPool
  /\ input \in PeakLists
  /\ inputData = data
  /\ callerPeaks = [i \in DOMAIN input |-> i]
  /\ heap = input
  /\ pc = "start"
  /\ peaks = callerPeaks
  /\ kind = 0
  /\ x = NoBuffer /\ y = NoBuffer
  /\ maxY = Undefined
  /\ nbParams = 0
  /\ paramsFunc = ""
  /\ getValueOptions = << >>
  /\ deltaX = Undefined
  /\ pInit = NoBuffer /\ pMin = NoBuffer /\ pMax = NoBuffer
  /\ gradientDifference = NoBuffer
  /\ allocated = {}
  /\ nbWrites = NoBuffer
  /\ handed = {}
  /\ solverCalls = 0
  /\ solverMode = ""
  /\ returned = NoBuffer
  /\ parameterValues = NoBuffer
  /\ result = << >>
  /\ error = ""
  /\ probe = NoProbe
  /\ shapeModel = NoShapeModel

callerState == << version, data, options, input, inputData, callerPeaks,
                 probe, shapeModel >>
buffers == << pInit, pMin, pMax, gradientDifference, allocated, nbWrites >>
solverState == << solverCalls, solverMode, returned, parameterValues >>
checked == << x, y, maxY, nbParams, paramsFunc, getValueOptions >>

\* the peak objects the local `peaks` refers to
Objects(refs, h) == [i \in DOMAIN refs |-> h[refs[i]]]

----------------------------------------------------------------------------
(* optimize, first encoding *)

\* lines 44-52
CheckInput ==
  /\ version = 1 /\ pc = "start"
  /\ LET r == checkInput(data, options)
     IN IF r.threw
        THEN /\ pc' = "error" /\ error' = r.message
             /\ UNCHANGED << data, checked >>
        ELSE /\ pc' = "copy" /\ error' = ""
             /\ data' = [data EXCEPT !.y = r.dataY]
             /\ x' = r.x /\ y' = r.y /\ maxY' = r.maxY
             /\ nbParams' = r.nbParams /\ paramsFunc' = r.paramsFunc
             /\ getValueOptions' = r.getValueOptions
  /\ UNCHANGED << version, options, input, inputData, callerPeaks, probe,
                  shapeModel,
                  heap, peaks, kind,
                  deltaX, buffers, handed, solverState, result >>

\* line 54
CopyPeaks ==
  /\ version = 1 /\ pc = "copy"
  /\ peaks' = jsonCopyRefs(peaks, heap)
  /\ heap' = jsonCopyHeap(peaks, heap)
  /\ pc' = "build"
  /\ UNCHANGED << callerState, kind, checked, deltaX, buffers, handed,
                  solverState, result, error >>

\* lines 56-74
BuildVectors ==
  /\ version = 1 /\ pc = "build"
  /\ LET nbShapes == Length(peaks)
         empty == Float64Array(nbShapes * nbParams)
         acc == fillLoop([pInit |-> empty, pMin |-> empty, pMax |-> empty,
                          gradientDifference |-> empty,
                          nbWrites |-> [k \in DOMAIN empty |-> 0],
                          threw |-> FALSE, message |-> ""],
                         0, 0, Objects(peaks, heap), nbShapes, nbParams,
                         getValueOptions)
     IN /\ pInit' = acc.pInit /\ pMin' = acc.pMin /\ pMax' = acc.pMax
        /\ gradientDifference' = acc.gradientDifference
        /\ nbWrites' = acc.nbWrites
        /\ allocated' = {"pMin", "pMax", "pInit", "gradientDifference"}
        /\ pc' = IF acc.threw THEN "error" ELSE "select"
        /\ error' = acc.message
  /\ UNCHANGED << callerState, heap, peaks, kind, checked, deltaX, handed,
                  solverState, result >>

\* the selector's rejection is not propagated
SelectMethodUnchecked ==
  /\ version = 1 /\ pc = "select"
  /\ pc' = "solve" /\ error' = ""
  /\ handed' = {"minValues", "maxValues", "initialValues",
                "gradientDifference"}
  /\ UNCHANGED << callerState, heap, peaks, kind, checked, deltaX, buffers,
                  solverState, result >>

\* lines 76-81
SelectMethod ==
  /\ version = 1 /\ pc = "select"
  /\ LET r == selectMethod(options.optimization)
     IN IF r.threw
        THEN pc' = "error" /\ error' = r.message /\ UNCHANGED handed
        ELSE /\ pc' = "solve" /\ error' = ""
             /\ handed' = {"minValues", "maxValues", "initialValues",
                           "gradientDifference"}
  /\ UNCHANGED << callerState, heap, peaks, kind, checked, deltaX, buffers,
                  solverState, result >>

\* line 83 (first encoding), line 250 (second): the call of the algorithm
Solve ==
  /\ pc = "solve"
  /\ \E mode \in SolverModes :
       /\ solverMode' = mode
       /\ solverCalls' = solverCalls + 1
       /\ IF mode = "throw"
          THEN /\ pc' = "error" /\ error' = "the solver failed"
               /\ UNCHANGED << returned, parameterValues >>
          ELSE /\ pc' = "decode" /\ error' = ""
               /\ returned' = solverResult(mode, pInit)
               /\ parameterValues' = solverResult(mode, pInit)
  /\ UNCHANGED << callerState, heap, peaks, kind, checked, deltaX, buffers,
                  handed, result >>

\* lines 85-95 (first encoding), 252-261 (second)
Decode ==
  /\ pc = "decode"
  /\ LET st == decodeLoop([pv |-> parameterValues, heap |-> heap], 0, peaks,
                          nbParams, maxY)
     IN /\ parameterValues' = st.pv
        /\ heap' = st.heap
  /\ result' = peaks
  /\ pc' = "done"
  /\ UNCHANGED << callerState, peaks, kind, checked, deltaX, buffers, handed,
                  solverCalls, solverMode, returned, error >>

----------------------------------------------------------------------------
(* optimize, second encoding *)

\* line 203
CopyPeaks2 ==
  /\ version = 2 /\ pc = "start"
  /\ peaks' = jsonCopyRefs(peaks, heap)
  /\ heap' = jsonCopyHeap(peaks, heap)
  /\ pc' = "kind"
  /\ UNCHANGED << callerState, kind, checked, deltaX, buffers, handed,
                  solverState, result, error >>

\* line 205: getKind returns an identifier, or rejects a name it does not know
GetKind2 ==
  /\ version = 2 /\ pc = "kind"
  /\ \/ /\ kind' = getKind(options.shape.kind)
        /\ pc' = "normalize" /\ error' = ""
     \/ /\ getKind(options.shape.kind) = 0
        /\ pc' = "error" /\ error' = "Unknown kind"
        /\ UNCHANGED kind
  /\ UNCHANGED << callerState, heap, peaks, checked, deltaX, buffers, handed,
                  solverState, result >>

\* lines 207-209
Normalize2 ==
  /\ version = 2 /\ pc = "normalize"
  /\ LET m == getMaxValue(data.y)
         r == mapDivide(data.y, m)
     IN /\ x' = data.x /\ maxY' = m /\ y' = r.result
        /\ data' = [data EXCEPT !.y = r.source]
  /\ pc' = "switch"
  /\ UNCHANGED << version, options, input, inputData, callerPeaks, probe,
                  shapeModel,
                  heap, peaks, kind,
                  nbParams, paramsFunc, getValueOptions, deltaX, buffers,
                  handed, solverState, result, error >>

\* the switch without its default branch: an unknown kind falls through
SwitchKind2NoDefault ==
  /\ version = 2 /\ pc = "switch"
  /\ nbParams' = (IF kind = 3 THEN 4 ELSE 3)
  /\ paramsFunc' = (IF kind = 3 THEN "sumOfGaussianLorentzians"
                    ELSE IF kind = 2 THEN "sumOfLorentzians"
                    ELSE "sumOfGaussians")
  /\ pc' = "build" /\ error' = ""
  /\ UNCHANGED << callerState, heap, peaks, kind, x, y, maxY, getValueOptions,
                  deltaX, buffers, handed, solverState, result >>

\* lines 211-228
SwitchKind2 ==
  /\ version = 2 /\ pc = "switch"
  /\ CASE kind = 1 -> /\ nbParams' = 3 /\ paramsFunc' = "sumOfGaussians"
                      /\ pc' = "build" /\ error' = ""
       [] kind = 2 -> /\ nbParams' = 3 /\ paramsFunc' = "sumOfLorentzians"
                      /\ pc' = "build" /\ error' = ""
       [] kind = 3 -> /\ nbParams' = 4
                      /\ paramsFunc' = "sumOfGaussianLorentzians"
                      /\ pc' = "build" /\ error' = ""
       [] OTHER -> /\ pc' = "error"
                   /\ error' = "kind of shape is not supported"
                   /\ UNCHANGED << nbParams, paramsFunc >>
  /\ UNCHANGED << callerState, heap, peaks, kind, x, y, maxY, getValueOptions,
                  deltaX, buffers, handed, solverState, result >>

\* lines 230-242
BuildVectors2 ==
  /\ version = 2 /\ pc = "build"
  /\ LET length == Length(peaks)
         empty == Float64Array(length * nbParams)
         dt == AbsNum(Sub(data.x[0], data.x[1]))
         acc == fillLoop2([pInit |-> empty, pMin |-> empty, pMax |-> empty,
                           nbWrites |-> [k \in DOMAIN empty |-> 0]],
                          0, 0, Objects(peaks, heap), length, nbParams, dt)
     IN /\ pInit' = acc.pInit /\ pMin' = acc.pMin /\ pMax' = acc.pMax
        /\ nbWrites' = acc.nbWrites
        /\ deltaX' = dt
  /\ allocated' = {"pInit", "pMin", "pMax"}
  /\ pc' = "select"
  /\ UNCHANGED << callerState, heap, peaks, kind, checked, gradientDifference,
                  handed, solverState, result, error >>

\* lines 244-248
SelectMethod2 ==
  /\ version = 2 /\ pc = "select"
  /\ LET r == selectMethod(options.optimization)
     IN IF r.threw
        THEN pc' = "error" /\ error' = r.message /\ UNCHANGED handed
        ELSE /\ pc' = "solve" /\ error' = ""
             /\ handed' = {"minValues", "maxValues", "initialValues"}
  /\ UNCHANGED << callerState, heap, peaks, kind, checked, deltaX, buffers,
                  solverState, result >>

----------------------------------------------------------------------------

Next ==
  \/ CheckInput \/ CopyPeaks \/ BuildVectors \/ SelectMethod
  \/ CopyPeaks2 \/ GetKind2 \/ Normalize2 \/ SwitchKind2 \/ BuildVectors2
  \/ SelectMethod2
  \/ Solve \/ Decode

Spec == Init /\ [][Next]_vars

----------------------------------------------------------------------------
(* The value resolvers called directly, on any index and any state *)

InitGetValue ==
  /\ Init
  /\ Length(input) = 1
  /\ options.shape.kind \in {"gaussian", "pseudovoigt"}
  /\ options.optimization.kind = "lm"

\* getValue of the first encoding, with the options checkInput resolves
CallGetValue ==
  /\ version = 1
  /\ \E parameterIndex \in 0..MaxIndex, state \in 0..MaxState :
       probe' = [fn |-> "getValue", parameterIndex |-> parameterIndex,
                 state |-> state,
                 result |-> getValue(parameterIndex, input[0], state,
                              checkInput(data, options).getValueOptions)]
  /\ UNCHANGED << version, data, options, input, inputData, callerPeaks,
                  heap, pc, peaks, kind, checked, deltaX, buffers, handed,
                  solverState, result, error, shapeModel >>

\* getValue of the second encoding, with dt = |data.x[0] - data.x[1]|
CallGetValue2 ==
  /\ version = 2
  /\ \E parameterIndex \in 0..MaxIndex, key \in 0..MaxState :
       probe' = [fn |-> "getValue2", parameterIndex |-> parameterIndex,
                 state |-> key,
                 result |-> getValue2(parameterIndex, input[0], key,
                              AbsNum(Sub(data.x[0], data.x[1])))]
  /\ UNCHANGED << version, data, options, input, inputData, callerPeaks,
                  heap, pc, peaks, kind, checked, deltaX, buffers, handed,
                  solverState, result, error, shapeModel >>

NextGetValue == CallGetValue \/ CallGetValue2

SpecGetValue == InitGetValue /\ [][NextGetValue]_vars

----------------------------------------------------------------------------
(* The shape models (shapes/sumOfGaussians.js and the two files after it) *)

\* a < b on numbers; false when either is not a number
Lt(a, b) == IsNum(a) /\ IsNum(b) /\ a[1] * b[2] < b[1] * a[2]

\* p[idx] with a number for key: undefined unless idx is a whole index of p
Element(p, idx) ==
  IF IsNum(idx) /\ idx[2] = 1 /\ idx[1] \in DOMAIN p THEN p[idx[1]]
  ELSE Undefined

\* the evaluators of ml-peak-shape-generator, left uninterpreted: a value is
\* the application itself, so two values agree only on the same arguments
gaussianFct(px, py, width, t) ==
  [fct |-> "gaussianFct", x |-> px, y |-> py, width |-> width,
   mu |-> Undefined, t |-> t]
lorentzianFct(peak, t) ==
  [fct |-> "lorentzianFct", x |-> peak.x, y |-> peak.y, width |-> peak.width,
   mu |-> Undefined, t |-> t]
pseudovoigtFct(peak, t) ==
  [fct |-> "pseudovoigtFct", x |-> peak.x, y |-> peak.y,
   width |-> peak.width, mu |-> peak.mu, t |-> t]

\* every block placed one element after the last: i + j
OffsetOneElement(nL, j) == Whole(j)

\* nL * j, the distance from p[i] to the j-th parameter of peak i
Offset(nL, j) == Mul(nL, Whole(j))

\* `result += v`, from `let result = 0`: the terms added, in the order added
EmptySum == << >>
AddTerm(sum, v) == Append(sum, v)

\* lines 12-17: the function sumOfGaussians returns, called on t
RECURSIVE sumOfGaussiansLoop(_, _, _, _, _)
sumOfGaussiansLoop(p, t, nL, i, sum) ==
  IF Lt(Whole(i), nL)
  THEN sumOfGaussiansLoop(p, t, nL, i + 1,
         AddTerm(sum, gaussianFct(Element(p, Whole(i)),
                                  Element(p, Add(Whole(i), Offset(nL, 1))),
                                  Element(p, Add(Whole(i), Offset(nL, 2))),
                                  t)))
  ELSE sum

sumOfGaussians(p, t) ==
  sumOfGaussiansLoop(p, t, Div(Whole(Length(p)), Whole(3)), 0, EmptySum)

\* lines 52-63: the function sumOfGaussianLorentzians returns, called on t
RECURSIVE sumOfGaussianLorentziansLoop(_, _, _, _, _)
sumOfGaussianLorentziansLoop(p, t, nL, i, sum) ==
  IF Lt(Whole(i), nL)
  THEN sumOfGaussianLorentziansLoop(p, t, nL, i + 1,
         AddTerm(sum, pseudovoigtFct(
           [x |-> Element(p, Whole(i)),
            y |-> Element(p, Add(Whole(i), Offset(nL, 1))),
            width |-> Element(p, Add(Whole(i), Offset(nL, 2))),
            mu |-> Element(p, Add(Whole(i), Offset(nL, 3)))], t)))
  ELSE sum

sumOfGaussianLorentzians(p, t) ==
  sumOfGaussianLorentziansLoop(p, t, Div(Whole(Length(p)), Whole(4)), 0,
                               EmptySum)

\* lines 79-89: the function sumOfLorentzians returns, called on t
RECURSIVE sumOfLorentziansLoop(_, _, _, _, _)
sumOfLorentziansLoop(p, t, nL, i, sum) ==
  IF Lt(Whole(i), nL)
  THEN sumOfLorentziansLoop(p, t, nL, i + 1,
         AddTerm(sum, lorentzianFct(
           [x |-> Element(p, Whole(i)),
            y |-> Element(p, Add(Whole(i), Offset(nL, 1))),
            width |-> Element(p, Add(Whole(i), Offset(nL, 2)))], t)))
  ELSE sum

sumOfLorentzians(p, t) ==
  sumOfLorentziansLoop(p, t, Div(Whole(Length(p)), Whole(3)), 0, EmptySum)

\* the flat vectors handed to the constructors: every length up to
\* MaxLength, all elements different
Vectors ==
  { [k \in 0..(n - 1) |-> Whole(k + a)] : n \in 0..MaxLength, a \in {1, 10} }

\* the abscissas the returned functions are called on
Abscissas == { Whole(0), Num(1, 2) }

InitShapes ==
  /\ Init
  /\ version = 1
  /\ Length(input) = 1
  /\ options.shape.kind = "gaussian"
  /\ options.optimization.kind = "lm"

\* the constructors only capture p (lines 10-11, 50-51, 77-78)
Construct(fn) ==
  /\ shapeModel.fn = "none"
  /\ \E p \in Vectors : shapeModel' = [NoShapeModel EXCEPT !.fn = fn, !.p = p]
  /\ UNCHANGED << version, data, options, input, inputData,
                  callerPeaks, probe, heap, pc, peaks, kind, checked, deltaX,
                  buffers, handed, solverState, result, error >>

SumOfGaussians == Construct("sumOfGaussians")
SumOfGaussianLorentzians == Construct("sumOfGaussianLorentzians")
SumOfLorentzians == Construct("sumOfLorentzians")

\* a call of the returned function on t
Evaluate ==
  /\ shapeModel.fn # "none"
  /\ shapeModel.calls < MaxCalls
  /\ \E t \in Abscissas :
       LET p == shapeModel.p
           r == CASE shapeModel.fn = "sumOfGaussians" -> sumOfGaussians(p, t)
                  [] shapeModel.fn = "sumOfGaussianLorentzians" ->
                       sumOfGaussianLorentzians(p, t)
                  [] OTHER -> sumOfLorentzians(p, t)
           seen == DOMAIN shapeModel.first
       IN shapeModel' =
            [shapeModel EXCEPT
               !.calls = @ + 1, !.t = t, !.result = r,
               !.first = IF t \in seen THEN @
                         ELSE [u \in seen \cup {t} |->
                                 IF u = t THEN r ELSE shapeModel.first[u]]]
  /\ UNCHANGED << version, data, options, input, inputData,
                  callerPeaks, probe, heap, pc, peaks, kind, checked, deltaX,
                  buffers, handed, solverState, result, error >>

NextShapes ==
  \/ SumOfGaussians \/ SumOfGaussianLorentzians \/ SumOfLorentzians
  \/ Evaluate

SpecShapes == InitShapes /\ [][NextShapes]_vars

----------------------------------------------------------------------------
(* Properties *)

NbPeaks == Length(input)
Flat == 0..(NbPeaks * nbParams - 1)
PeakIndexes == 0..(NbPeaks - 1)
ParamIndexes == 0..(nbParams - 1)
Supported == {"gaussian", "lorentzian", "pseudovoigt"}

\* the value each encoding resolves for (kind s, peak i) in state st
Resolved(s, i, st) ==
  IF version = 1 THEN getValue(s, input[i], st, getValueOptions).value
  ELSE getValue2(s, input[i], st, deltaX).value

LayoutOf(vec, st) ==
  /\ DOMAIN vec = Flat
  /\ \A i \in PeakIndexes : \A s \in ParamIndexes :
       vec[i + s * NbPeaks] = Resolved(s, i, st)

(* C1, as stated: when the solver is about to be called, each of the four
   vectors initialValues, minValues, maxValues and gradientDifference has
   length nbPeaks * nbParams (3 per peak, 4 for pseudovoigt), holds the value
   of (kind s, peak i) at index i + s * nbPeaks, and every index was written
   exactly once.  The second encoding builds no gradientDifference. *)
C1_FourVectors ==
  pc = "solve" =>
    /\ nbParams = (IF options.shape.kind = "pseudovoigt" THEN 4 ELSE 3)
    /\ handed = {"initialValues", "minValues", "maxValues", "gradientDifference"}
    /\ \A vec \in {pInit, pMin, pMax, gradientDifference} :
         Length(vec) = NbPeaks * nbParams
    /\ LayoutOf(pInit, STATE_INIT)
    /\ LayoutOf(pMin, STATE_MIN)
    /\ LayoutOf(pMax, STATE_MAX)
    /\ \A k \in Flat : nbWrites[k] = 1

(* C1, amended: the batched layout holds of every vector optimize hands to
   the solver: four in the first encoding, and the three it builds
   (initialValues, minValues, maxValues; no gradientDifference) in the
   second.  Each has length nbPeaks * nbParams, holds the value resolved for
   (kind s, peak i) at flat index i + s * nbPeaks, and every index is
   written exactly once. *)
C1_BatchedLayout ==
  pc = "solve" =>
    /\ nbParams = (IF options.shape.kind = "pseudovoigt" THEN 4 ELSE 3)
    /\ LayoutOf(pInit, STATE_INIT)
    /\ LayoutOf(pMin, STATE_MIN)
    /\ LayoutOf(pMax, STATE_MAX)
    /\ \A k \in Flat : nbWrites[k] = 1
    /\ DOMAIN nbWrites = Flat
    /\ IF version = 1
       THEN /\ handed = {"initialValues", "minValues", "maxValues",
                         "gradientDifference"}
            /\ LayoutOf(gradientDifference, STATE_GRADIENT_DIFFERENCE)
       ELSE /\ handed = {"initialValues", "minValues", "maxValues"}
            /\ gradientDifference = NoBuffer
            /\ "gradientDifference" \notin allocated

\* two different peaks, four parameters each, ready for the solver
C1_Witness ==
  /\ pc = "solve" /\ version = 1 /\ NbPeaks = 2 /\ nbParams = 4
  /\ input[0] # input[1]
  /\ pInit[1] = input[1].x /\ pInit[1 + 2 * 2] = input[1].width

(* C2: with a solver that returns initialValues unchanged, the first
   encoding returns peaks whose x, y, width (and, for pseudovoigt, a supplied
   mu) equal the input peaks' values. *)
C2_IdentityRoundTrip ==
  (pc = "done" /\ version = 1 /\ solverMode = "identity") =>
    \A i \in PeakIndexes :
      LET out == heap[result[i]]
          inp == input[i]
      IN /\ out.x = inp.x /\ out.y = inp.y /\ out.width = inp.width
         /\ (nbParams = 4 /\ inp.mu # Undefined) => out.mu = inp.mu

(* C3: optimize never mutates its caller's inputs: the caller's peaks list
   and the peak objects in it hold the values they held before the call,
   data.x and data.y are unchanged, and no returned peak is one of the
   caller's objects. *)
C3_InputsUntouched ==
  /\ callerPeaks = [i \in PeakIndexes |-> i]
  /\ \A i \in PeakIndexes : heap[callerPeaks[i]] = input[i]
  /\ data = inputData
  /\ \A i \in DOMAIN result : \A j \in PeakIndexes : result[i] # callerPeaks[j]

\* a finished call whose returned peak differs from the caller's
C3_Witness ==
  /\ pc = "done" /\ solverMode = "indexed"
  /\ heap[result[0]] # input[0]
  /\ y # data.y

(* C4: with a shape.kind that is not gaussian, lorentzian or pseudovoigt the
   call ends in an error, before the solver is invoked (zero calls), with no
   result returned and the input peak list unmodified. *)
C4_UnsupportedShapeRejected ==
  options.shape.kind \notin Supported =>
    /\ solverCalls = 0
    /\ result = << >>
    /\ handed = {}
    /\ pc \in {"start", "kind", "normalize", "switch", "error"}
    /\ pc # "error" => ENABLED Next
    /\ callerPeaks = [i \in PeakIndexes |-> i]
    /\ \A i \in PeakIndexes : heap[callerPeaks[i]] = input[i]

\* the second encoding's switch rejects the kind, after the copy was made
C4_Witness ==
  /\ options.shape.kind = "triangular" /\ version = 2
  /\ pc = "error" /\ error = "kind of shape is not supported"
  /\ peaks # callerPeaks /\ solverCalls = 0

(* C5, as stated: with an unsupported optimization.kind the error surfaces
   before any of the parameter vectors is allocated or filled and before the
   solver is invoked. *)
C5_FailsBeforeVectors ==
  options.optimization.kind # "lm" =>
    /\ allocated = {}
    /\ pInit = NoBuffer /\ pMin = NoBuffer /\ pMax = NoBuffer
    /\ gradientDifference = NoBuffer
    /\ solverCalls = 0

(* C5, amended: with an unsupported optimization.kind optimize fails before
   the solver is invoked and returns no result; the error is raised by the
   method selector, which runs after the parameter vectors have been
   allocated and filled. *)
C5_FailsBeforeSolver ==
  options.optimization.kind # "lm" =>
    /\ solverCalls = 0
    /\ result = << >>
    /\ handed = {}
    /\ pc \notin {"solve", "decode", "done"}
    /\ error = "The optimization algorithm is not supported" =>
         /\ pc = "error"
         /\ {"pInit", "pMin", "pMax"} \subseteq allocated
         /\ DOMAIN pInit = Flat /\ DOMAIN pMin = Flat /\ DOMAIN pMax = Flat
         /\ \A k \in Flat : nbWrites[k] = 1

\* the selector has rejected the method; the buffers are already filled
C5_Witness ==
  /\ options.optimization.kind = "simplex"
  /\ pc = "error" /\ error = "The optimization algorithm is not supported"
  /\ NbPeaks = 2 /\ \A k \in Flat : nbWrites[k] = 1
  /\ solverCalls = 0

(* C6: an override optimization.parameters.x.max given as a function of the
   peak determines the upper position bound placed in maxValues for each
   peak (0.2 for peak {x:0, y:1, width:2} and peak => peak.x + peak.width*0.1). *)
C6_OverrideReachesSolver ==
  (pc = "solve" /\ version = 1
     /\ options.optimization.parameters.x.max # "none") =>
    \A i \in PeakIndexes :
      pMax[i] = ApplyOverride(options.optimization.parameters.x.max, input[i])

DefaultOptions ==
  /\ options.optimization.parameters.x.max = "none"
  /\ options.optimization.xGradientDifference = Undefined
  /\ options.optimization.yGradientDifference = Undefined
  /\ options.optimization.widthGradientDifference = Undefined
  /\ options.optimization.muGradientDifference = Undefined

InputMaxY == getMaxValue(inputData.y)

WidthAndMuBounds(i) ==
  /\ pMin[i + 2 * NbPeaks] = Mul(Num(1, 4), input[i].width)
  /\ pMax[i + 2 * NbPeaks] = Mul(Whole(4), input[i].width)
  /\ nbParams = 4 =>
       /\ pMin[i + 3 * NbPeaks] = Zero
       /\ pMax[i + 3 * NbPeaks] = Whole(1)

FactorBounds(i) ==
  /\ pMin[i] = Sub(input[i].x, Mul(Whole(2), input[i].width))
  /\ pMax[i] = Add(input[i].x, Mul(Whole(2), input[i].width))
  /\ pMin[i + NbPeaks] = Zero
  /\ pMax[i + NbPeaks] = Mul(Num(3, 2), Div(input[i].y, InputMaxY))
  /\ WidthAndMuBounds(i)

(* C7, as stated: with default options the bounds of every peak are
   position x -/+ 2*width, height 0 and 1.5*(y/maxY), width 0.25*width and
   4*width, mixing fraction 0 and 1. *)
C7_DefaultBounds ==
  (pc = "solve" /\ DefaultOptions) => \A i \in PeakIndexes : FactorBounds(i)

(* C7, amended: with default options the first encoding resolves position
   x -/+ 2*width, height 0 and 1.5*(y/maxY), width 0.25*width and 4*width,
   mixing fraction 0 and 1; the second encoding resolves position
   x -/+ |data.x[0] - data.x[1]|, height 0 and 1.5, and the same width and
   mixing-fraction bounds. *)
C7_DefaultBoundsByEncoding ==
  (pc = "solve" /\ DefaultOptions) =>
    \A i \in PeakIndexes :
      IF version = 1 THEN FactorBounds(i)
      ELSE LET dt == AbsNum(Sub(inputData.x[0], inputData.x[1]))
           IN /\ pMin[i] = Sub(input[i].x, dt)
              /\ pMax[i] = Add(input[i].x, dt)
              /\ pMin[i + NbPeaks] = Zero
              /\ pMax[i + NbPeaks] = Num(3, 2)
              /\ WidthAndMuBounds(i)

\* peak {x:0, y:1, width:2}: positions -4 and 4, widths 0.5 and 8
C7_Witness ==
  /\ pc = "solve" /\ version = 1 /\ DefaultOptions /\ NbPeaks = 1
  /\ input[0].x = Zero /\ input[0].y = Whole(1) /\ input[0].width = Whole(2)
  /\ pMin[0] = Whole(-4) /\ pMax[0] = Whole(4)
  /\ pMin[2] = Num(1, 2) /\ pMax[2] = Whole(8)

FirstDefined(a, b, c) ==
  IF a # Undefined THEN a ELSE IF b # Undefined THEN b ELSE c

(* C8: in the first encoding the gradient step of a peak is the peak's own
   <kind>GradientDifference when defined (0 included), else the option's
   when defined, else width / 2000 for position and width, 1e-3 for height
   and 0.01 for the mixing fraction. *)
C8_GradientStep ==
  (pc = "solve" /\ version = 1) =>
    \A i \in PeakIndexes :
      LET p == input[i]
          o == options.optimization
      IN /\ gradientDifference[i] =
              FirstDefined(p.xGradientDifference, o.xGradientDifference,
                           Div(p.width, Whole(2000)))
         /\ gradientDifference[i + NbPeaks] =
              FirstDefined(p.yGradientDifference, o.yGradientDifference,
                           Num(1, 1000))
         /\ gradientDifference[i + 2 * NbPeaks] =
              FirstDefined(p.widthGradientDifference,
                           o.widthGradientDifference,
                           Div(p.width, Whole(2000)))
         /\ nbParams = 4 =>
              gradientDifference[i + 3 * NbPeaks] =
                FirstDefined(p.muGradientDifference, o.muGradientDifference,
                             Num(1, 100))

\* a per-peak step of 0 wins over the option's 0.01
C8_Witness ==
  /\ pc = "solve" /\ version = 1 /\ NbPeaks = 2
  /\ input[1].xGradientDifference = Zero
  /\ options.optimization.xGradientDifference = Num(1, 100)
  /\ gradientDifference[1] = Zero
  /\ gradientDifference[0] = Num(1, 100)

(* C9: optimize returns a peak list of the input's length and order in which
   field keys[s] of peak i is parameterValues[i + s*nbPeaks] as the solver
   returned it, the height (s = 1) multiplied by maxY exactly once; no other
   batch is rescaled and no other field is touched. *)
C9_Decode ==
  pc = "done" =>
    /\ DOMAIN result = PeakIndexes
    /\ \A i \in PeakIndexes :
         LET out == heap[result[i]]
         IN /\ out.x = returned[i]
            /\ out.y = Mul(returned[i + NbPeaks], InputMaxY)
            /\ out.width = returned[i + 2 * NbPeaks]
            /\ out.mu = (IF nbParams = 4 THEN returned[i + 3 * NbPeaks]
                         ELSE input[i].mu)
            /\ \A f \in {"xGradientDifference", "yGradientDifference",
                         "widthGradientDifference", "muGradientDifference"} :
                 out[f] = input[i][f]
    /\ \A k \in Flat :
         parameterValues[k] =
           (IF k \in NbPeaks..(2 * NbPeaks - 1)
            THEN Mul(returned[k], InputMaxY) ELSE returned[k])

\* two peaks decoded from a solver result that differs from the guess
C9_Witness ==
  /\ pc = "done" /\ NbPeaks = 2 /\ nbParams = 4 /\ solverMode = "indexed"
  /\ InputMaxY = Whole(3)
  /\ heap[result[1]].y = Mul(returned[3], Whole(3))
  /\ heap[result[1]].y # returned[3]

UnsupportedCall ==
  /\ probe.fn # "none"
  /\ \/ probe.parameterIndex \notin {X, Y, WIDTH, MU}
     \/ probe.state \notin {STATE_INIT, STATE_MIN, STATE_MAX,
                            STATE_GRADIENT_DIFFERENCE}

(* C10: asking a value resolver for a parameter index outside {0, 1, 2, 3}
   or for a state outside {init, min, max, gradient step} raises an error;
   no value is returned. *)
C10_UnsupportedThrows == UnsupportedCall => probe.result.threw

(* C10, first encoding alone: its getValue raises for every unsupported
   index or state and returns a value for every supported pair. *)
C10_FirstEncodingThrows ==
  probe.fn = "getValue" =>
    (probe.result.threw <=>
       \/ probe.parameterIndex \notin {X, Y, WIDTH, MU}
       \/ probe.state \notin {STATE_INIT, STATE_MIN, STATE_MAX,
                              STATE_GRADIENT_DIFFERENCE})

\* the parameter count of the shape a constructor sums
ParameterCount(fn) == IF fn = "sumOfGaussianLorentzians" THEN 4 ELSE 3

\* the shape evaluator applied to peak i of a vector of nL peaks
PeakTerm(fn, p, nL, i, t) ==
  CASE fn = "sumOfGaussians" ->
         gaussianFct(p[i], p[i + nL], p[i + 2 * nL], t)
    [] fn = "sumOfLorentzians" ->
         lorentzianFct([x |-> p[i], y |-> p[i + nL], width |-> p[i + 2 * nL]],
                       t)
    [] OTHER ->
         pseudovoigtFct([x |-> p[i], y |-> p[i + nL], width |-> p[i + 2 * nL],
                         mu |-> p[i + 3 * nL]], t)

\* C11: for every vector whose length is a multiple of the shape's
\* parameter count (3, or 4 for the pseudo-Voigt sum), with nL peaks, the
\* returned function called on t gives the sum, over i in 0..nL-1 and each
\* peak once, of the shape evaluator on position p[i], height p[i+nL], width
\* p[i+2*nL] (and mu p[i+3*nL]); and a call on an abscissa called before
\* gives what the first call on it gave.
C11_SumOverPeaks ==
  LET fn == shapeModel.fn
      p == shapeModel.p
      count == ParameterCount(fn)
      nL == Length(p) \div count
  IN (shapeModel.calls > 0 /\ Length(p) % count = 0) =>
       /\ Len(shapeModel.result) = nL
       /\ \A i \in 0..(nL - 1) :
            shapeModel.result[i + 1] = PeakTerm(fn, p, nL, i, shapeModel.t)
       /\ shapeModel.first[shapeModel.t] = shapeModel.result

\* C11 witness: the pseudo-Voigt sum of a vector of two peaks has been
\* called MaxCalls times, at least once on an abscissa called before.
C11_Witness ==
  /\ shapeModel.fn = "sumOfGaussianLorentzians"
  /\ Length(shapeModel.p) = 2 * ParameterCount(shapeModel.fn)
  /\ shapeModel.calls = MaxCalls
  /\ Cardinality(DOMAIN shapeModel.first) < shapeModel.calls
  /\ Len(shapeModel.result) = 2

\* width > 0, y >= 0, mu absent or in [0,1] on every peak, and maxY > 0
WellFormedPeaks ==
  /\ Lt(Zero, InputMaxY)
  /\ \A i \in PeakIndexes :
       /\ Lt(Zero, input[i].width)
       /\ Leq(Zero, input[i].y)
       /\ \/ input[i].mu = Undefined
          \/ Leq(Zero, input[i].mu) /\ Leq(input[i].mu, Whole(1))

Ordered(k) == Leq(pMin[k], pInit[k]) /\ Leq(pInit[k], pMax[k])

\* C12: with default options and well-formed peaks, the vectors handed to
\* the solver satisfy minValues[k] <= initialValues[k] <= maxValues[k] at
\* every flat index k.
C12_InitialWithinBounds ==
  (pc = "solve" /\ DefaultOptions /\ WellFormedPeaks) =>
    \A k \in Flat : Ordered(k)

\* C12 on the first encoding alone (lines 61-81 and 98-168), and on every
\* parameter of the second encoding but the height
C12_WithinBoundsButSecondHeight ==
  (pc = "solve" /\ DefaultOptions /\ WellFormedPeaks) =>
    \A k \in Flat :
      (version = 1 \/ k \notin { HeightIndex(i, NbPeaks) : i \in PeakIndexes })
        => Ordered(k)

====
